---- MODULE Spec2Model ----
(***************************************************************************)
(* Model of pyroute2/netlink/rtnl/ifinfmsg.py: the interface-info message  *)
(* (header fields, flag translation), the netns_fd attribute, the          *)
(* operational-state attribute and the link-info variant resolver.         *)
(*                                                                         *)
(* Four specifications share the module, one per part of the file:         *)
(*   SpecNetns  - ifinfbase.netns_fd (encode / close / __del__)            *)
(*   SpecMsg    - ifinfbase.encode, names2flags, flags2names, fields       *)
(*   SpecState  - ifinfbase.state (encode / decode)                        *)
(*   SpecInfo   - ifinfbase.ifinfo (nla_map, info_data)                    *)
(* Each keeps the variables of the other parts at their initial values.    *)
(***************************************************************************)
EXTENDS Integers, Sequences, FiniteSets, TLC

VARIABLES
    \* ---- ifinfbase.netns_fd ----
    ns_value,      \* self.value: what the caller configured (an int or a name)
    ns_netns_fd,   \* self.netns_fd: None or the recorded descriptor
    ns_field,      \* self['value']: the field handed to nla.encode
    ns_data,       \* the bytes nla.encode produced, None before
    ns_hist,       \* one record per descriptor this attribute opened (history)
    ns_last,       \* how the last call on the attribute ended (history)
    ns_calls,      \* number of encode calls made so far
    ns_disposed,   \* __del__ has run
    ns_foreign,    \* descriptors of other owners closed through a stale number
    \* ---- ifinfbase header / flags ----
    m_input,       \* the header as the caller built it (history)
    m_fields,      \* the message's header fields (self[...])
    m_buf,         \* the encoded header bytes
    m_dec,         \* the header fields decoded back from m_buf
    m_names,       \* the result of flags2names on the decoded (flags, change)
    m_pc,          \* "new" -> "encoded" -> "decoded" -> "named"
    \* ---- ifinfbase.state ----
    st_origin,     \* the input the attribute was built from (history)
    st_value,      \* self.value: the state name
    st_field,      \* self['value']: the state code
    st_buf,        \* the attribute's payload bytes
    st_err,        \* the exception the last call raised, "" for none
    st_ops,        \* the calls made so far (history)
    \* ---- ifinfbase.ifinfo ----
    li_wire,       \* the attribute records of one link-info group, in wire order
    li_pos,        \* index of the next record to decode
    li_attrs       \* self['attrs']: the attributes decoded so far

nsVars == <<ns_value, ns_netns_fd, ns_field, ns_data, ns_hist, ns_last,
            ns_calls, ns_disposed, ns_foreign>>
mVars  == <<m_input, m_fields, m_buf, m_dec, m_names, m_pc>>
stVars == <<st_origin, st_value, st_field, st_buf, st_err, st_ops>>
liVars == <<li_wire, li_pos, li_attrs>>
vars   == <<nsVars, mVars, stVars, liVars>>

\* Python's None and a present value, kept comparable for TLC.
None == <<>>
Some(x) == <<x>>

Range(s) == {s[i] : i \in 1..Len(s)}

\* All sequences over S of length at most n.
SeqsUpTo(S, n) == UNION {[1..k -> S] : k \in 0..n}

(***************************************************************************)
(* struct.pack / struct.unpack of the format characters the file uses,     *)
(* little-endian, one field at a time.                                     *)
(***************************************************************************)
FmtSize(fmt) ==
    CASE fmt = "B" -> 1
      [] fmt = "H" -> 2
      [] fmt = "i" -> 4
      [] fmt = "I" -> 4
      [] fmt = "Q" -> 8

FmtSigned(fmt) == fmt = "i"

\* The values struct.pack accepts for a format; anything else is struct.error.
\* TLC's integers are below 2^31 in size, so a width of 31 bits or more is
\* bounded only by the sign.
FmtOk(fmt, v) ==
    LET bits == IF FmtSigned(fmt) THEN 8 * FmtSize(fmt) - 1 ELSE 8 * FmtSize(fmt)
    IN  /\ FmtSigned(fmt) \/ v >= 0
        /\ bits >= 31 \/ (v < 2^bits /\ v >= -(2^bits))

\* n bytes of v, least significant first; \div and % round down, so a
\* negative v comes out in two's complement.
RECURSIVE LEBytes(_, _)
LEBytes(v, n) == IF n = 0 THEN <<>> ELSE <<v % 256>> \o LEBytes(v \div 256, n - 1)

pack(fmt, v) == LEBytes(v, FmtSize(fmt))

RECURSIVE LEValue(_, _)
LEValue(b, signed) ==
    IF Len(b) = 1
    THEN IF signed /\ b[1] >= 128 THEN b[1] - 256 ELSE b[1]
    ELSE Head(b) + 256 * LEValue(Tail(b), signed)

unpack(fmt, b) == LEValue(b, FmtSigned(fmt))

(***************************************************************************)
(* ifinfbase.netns_fd                                                      *)
(***************************************************************************)
MaxFd == 1        \* descriptor numbers are 0..MaxFd
MaxCalls == 3     \* encode calls on one attribute

FdNumbers == 0..MaxFd
NetnsNames == {"ns1", "ns2"}
NetnsInts == {-1, 7}

\* self.value: isinstance(self.value, int) is the isint field.
IntValue(i) == [isint |-> TRUE, i |-> i, s |-> ""]
NameValue(s) == [isint |-> FALSE, i |-> 0, s |-> s]
NetnsValues == {IntValue(i) : i \in NetnsInts} \cup {NameValue(s) : s \in NetnsNames}

netns_fd_fields == <<<<"value", "I">>>>

\* The descriptors this attribute opened that are open now.
NsOpenIdx(hist) == {k \in 1..Len(hist) : hist[k].open}
NsOpenFds(hist) == {hist[k].fd : k \in NsOpenIdx(hist)}

\* The attribute as a record, for the operators below.
NsSelf == [netns_fd |-> ns_netns_fd, field |-> ns_field, data |-> ns_data,
           hist |-> ns_hist, foreign |-> ns_foreign]

\* os.close(fd). An open descriptor is closed. A number that is not open any
\* more is either refused (OSError, EBADF) or, when the process has meanwhile
\* given the number to another open file, closes that file.
os_close(s, fd) ==
    LET n == Len(s.hist)
        counted == [s.hist EXCEPT ![n].closes = @ + 1]
        hit == {k \in NsOpenIdx(s.hist) : s.hist[k].fd = fd}
    IN  IF hit # {}
        THEN {[raised |-> FALSE,
               s |-> [s EXCEPT !.hist =
                        [k \in 1..n |-> IF k \in hit
                                        THEN [counted[k] EXCEPT !.open = FALSE]
                                        ELSE counted[k]]]]}
        ELSE {[raised |-> TRUE, s |-> [s EXCEPT !.hist = counted]],
              [raised |-> FALSE,
               s |-> [s EXCEPT !.hist = counted, !.foreign = @ + 1]]}

\* netns_fd.close: closes the recorded descriptor; the record is kept.
close(s) ==
    IF s.netns_fd # None
    THEN os_close(s, s.netns_fd[1])
    ELSE {[raised |-> FALSE, s |-> s]}

\* The mutation of encode's first statement: no close before the open.
encode_close_skipped(s) == {[raised |-> FALSE, s |-> s]}

\* encode's first statement, self.close().
encode_close(s) == close(s)

\* The mutation of __del__: the finalizer releases nothing.
del_close_skipped(s) == {[raised |-> FALSE, s |-> s]}

\* __del__'s only statement, self.close().
del_close(s) == close(s)

\* os.open(netns_run_dir/name, O_RDONLY): fails (OSError), or returns a
\* descriptor number that is not open.
os_open(s) ==
    {[raised |-> TRUE, s |-> s]} \cup
    {[raised |-> FALSE,
      s |-> [s EXCEPT !.netns_fd = Some(fd),
                      !.field = Some(fd),
                      !.hist = Append(@, [fd |-> fd, open |-> TRUE, closes |-> 0])]]
       : fd \in FdNumbers \ NsOpenFds(s.hist)}

\* nla.encode(self): packs the fields of netns_fd_fields.
ns_nla_encode(s) ==
    LET fmt == netns_fd_fields[1][2]
    IN  IF FmtOk(fmt, s.field[1])
        THEN [raised |-> FALSE, s |-> [s EXCEPT !.data = Some(pack(fmt, s.field[1]))]]
        ELSE [raised |-> TRUE, s |-> s]

\* netns_fd.encode with self.value = v: every way the call can end, as
\* [s: the attribute afterwards, result, opens: open attempts, opened: the
\* index in hist of the descriptor the call opened, 0 for none].
netns_fd_encode(s0, v) ==
    UNION {
      IF c.raised
      THEN {[s |-> c.s, result |-> "OSError_close", opens |-> 0, opened |-> 0]}
      ELSE IF v.isint
      THEN LET e == ns_nla_encode([c.s EXCEPT !.field = Some(v.i)])
           IN  {[s |-> e.s,
                 result |-> IF e.raised THEN "struct_error" ELSE "ok",
                 opens |-> 0, opened |-> 0]}
      ELSE {IF o.raised
            THEN [s |-> o.s, result |-> "OSError_open", opens |-> 1, opened |-> 0]
            ELSE LET e == ns_nla_encode(o.s)
                 IN  [s |-> e.s,
                      result |-> IF e.raised THEN "struct_error" ELSE "ok",
                      opens |-> 1, opened |-> Len(o.s.hist)]
             : o \in os_open(c.s)}
      : c \in encode_close(s0)}

NsSet(s) ==
    /\ ns_netns_fd' = s.netns_fd
    /\ ns_field' = s.field
    /\ ns_data' = s.data
    /\ ns_hist' = s.hist
    /\ ns_foreign' = s.foreign

NsInit ==
    /\ ns_value = None
    /\ ns_netns_fd = None
    /\ ns_field = None
    /\ ns_data = None
    /\ ns_hist = <<>>
    /\ ns_last = [op |-> "new", isint |-> FALSE, result |-> "ok", opens |-> 0, opened |-> 0]
    /\ ns_calls = 0
    /\ ns_disposed = FALSE
    /\ ns_foreign = 0

\* One call of netns_fd.encode, with the value the caller configured.
NetnsEncode ==
    /\ ~ns_disposed
    /\ ns_calls < MaxCalls
    /\ \E v \in NetnsValues :
         \E r \in netns_fd_encode(NsSelf, v) :
            /\ ns_value' = Some(v)
            /\ NsSet(r.s)
            /\ ns_last' = [op |-> "encode", isint |-> v.isint, result |-> r.result,
                           opens |-> r.opens, opened |-> r.opened]
    /\ ns_calls' = ns_calls + 1
    /\ UNCHANGED <<ns_disposed, mVars, stVars, liVars>>

\* The attribute is disposed of: netns_fd.__del__. An exception raised in a
\* finalizer is reported and dropped.
NetnsDel ==
    /\ ~ns_disposed
    /\ \E c \in del_close(NsSelf) :
         /\ NsSet(c.s)
         /\ ns_last' = [op |-> "del", isint |-> FALSE,
                        result |-> IF c.raised THEN "OSError_close" ELSE "ok",
                        opens |-> 0, opened |-> 0]
    /\ ns_disposed' = TRUE
    /\ UNCHANGED <<ns_value, ns_calls, mVars, stVars, liVars>>

NextNetns == NetnsEncode \/ NetnsDel

(***************************************************************************)
(* Claims about ifinfbase.netns_fd, checked under SpecNetns.               *)
(***************************************************************************)

\* C1 as stated: once an encode call has ended, by return or by raise, no
\* descriptor that an encode call opened is open.
C1_ClosedBeforeReturn == NsOpenIdx(ns_hist) = {}

\* C1 as amended: a descriptor opened by an encode call is open when that call
\* ends and is the attribute's recorded netns_fd (on success its number is the
\* encoded value); the only descriptor that may be open is the one opened by
\* the call that ended last, so the next encode call on the attribute, or its
\* disposal, has closed it.
C1_OpenUntilNextCall ==
    /\ (ns_last.op = "encode" /\ ns_last.opened # 0) =>
          /\ ns_hist[ns_last.opened].open
          /\ ns_netns_fd = Some(ns_hist[ns_last.opened].fd)
          /\ ns_last.result = "ok" =>
                ns_data = Some(pack("I", ns_hist[ns_last.opened].fd))
    /\ \A k \in NsOpenIdx(ns_hist) : k = ns_last.opened

\* C1 witness: a second encode call on a name has returned; it closed the
\* first call's descriptor and left its own open.
C1_Witness ==
    /\ ns_last.op = "encode" /\ ns_last.result = "ok" /\ ns_last.opened = 2
    /\ ~ns_hist[1].open /\ ns_hist[1].closes = 1 /\ ns_hist[2].open

\* C2 as stated: an encode with a literal integer attempts no open, an encode
\* with a name attempts exactly one; no descriptor is closed twice, and after
\* the disposal every descriptor the attribute opened has been closed exactly
\* once.
C2_ClosedExactlyOnce ==
    /\ ns_last.op = "encode" /\ ns_last.isint => ns_last.opens = 0
    /\ ns_last.op = "encode" /\ ~ns_last.isint => ns_last.opens = 1
    /\ \A k \in 1..Len(ns_hist) : ns_hist[k].closes <= 1
    /\ ns_disposed => \A k \in 1..Len(ns_hist) : ns_hist[k].closes = 1

\* C9: the attribute never holds more than one open descriptor.
C9_AtMostOneOpen == Cardinality(NsOpenIdx(ns_hist)) <= 1

\* C9 witness: after three encode calls, two of which opened a descriptor,
\* the attribute holds exactly one open descriptor.
C9_Witness ==
    /\ Len(ns_hist) = 2 /\ ns_calls = 3
    /\ Cardinality(NsOpenIdx(ns_hist)) = 1

(***************************************************************************)
(* Interface flags: the IFF_* catalogue, names2flags, flags2names.         *)
(***************************************************************************)

\* The IFF_* assignments of the module, in the order they are made.
IFF == << <<"IFF_UP", 1>>,
          <<"IFF_BROADCAST", 2>>,
          <<"IFF_DEBUG", 4>>,
          <<"IFF_LOOPBACK", 8>>,
          <<"IFF_POINTOPOINT", 16>>,
          <<"IFF_NOTRAILERS", 32>>,
          <<"IFF_RUNNING", 64>>,
          <<"IFF_NOARP", 128>>,
          <<"IFF_PROMISC", 256>>,
          <<"IFF_ALLMULTI", 512>>,
          <<"IFF_MASTER", 1024>>,
          <<"IFF_SLAVE", 2048>>,
          <<"IFF_MULTICAST", 4096>>,
          <<"IFF_PORTSEL", 8192>>,
          <<"IFF_AUTOMEDIA", 16384>>,
          <<"IFF_DYNAMIC", 32768>>,
          <<"IFF_LOWER_UP", 65536>>,
          <<"IFF_DORMANT", 131072>>,
          <<"IFF_ECHO", 262144>> >>

\* pyroute2.common.map_namespace(prefix, ns): a name -> value mapping and a
\* value -> name mapping of the namespace's entries, the latter iterated
\* (keys) in the order of the entries.
map_namespace(ns) ==
    [by_name  |-> [n \in {ns[i][1] : i \in 1..Len(ns)} |->
                     (CHOOSE i \in 1..Len(ns) : ns[i][1] = n) ],
     keys     |-> [i \in 1..Len(ns) |-> ns[i][2]],
     by_value |-> [v \in {ns[i][2] : i \in 1..Len(ns)} |->
                     ns[CHOOSE i \in 1..Len(ns) : ns[i][2] = v][1]]]

IFF_NAMES == [n \in DOMAIN map_namespace(IFF).by_name |->
                 IFF[map_namespace(IFF).by_name[n]][2]]
IFF_VALUES == map_namespace(IFF).by_value
IFF_VALUES_keys == map_namespace(IFF).keys

\* Python's | and & on non-negative integers.
RECURSIVE BitOr(_, _)
BitOr(a, b) ==
    IF a = 0 THEN b
    ELSE IF b = 0 THEN a
    ELSE (IF a % 2 = 1 \/ b % 2 = 1 THEN 1 ELSE 0) + 2 * BitOr(a \div 2, b \div 2)

RECURSIVE BitAnd(_, _)
BitAnd(a, b) ==
    IF a = 0 \/ b = 0 THEN 0
    ELSE (IF a % 2 = 1 /\ b % 2 = 1 THEN 1 ELSE 0) + 2 * BitAnd(a \div 2, b \div 2)

\* A flag name as the caller writes it: the characters "!" and the catalogue
\* name; flag[0] is Head, flag[1:] is Tail.
Plain(n) == <<n>>
Negated(n) == <<"!", n>>

\* The loop of names2flags over the rest of the list.
RECURSIVE names2flags_loop(_, _, _)
names2flags_loop(flags, ret, mask) ==
    IF flags = <<>>
    THEN <<ret, mask>>
    ELSE LET flag == Head(flags)
         IN  IF Head(flag) = "!"
             THEN names2flags_loop(Tail(flags), ret,
                                   BitOr(mask, IFF_NAMES[Tail(flag)[1]]))
             ELSE names2flags_loop(Tail(flags),
                                   BitOr(ret, IFF_NAMES[flag[1]]),
                                   BitOr(mask, IFF_NAMES[flag[1]]))

\* The mutation of names2flags: "mask |= ..." indented into the else branch.
RECURSIVE names2flags_mask_in_else_loop(_, _, _)
names2flags_mask_in_else_loop(flags, ret, mask) ==
    IF flags = <<>>
    THEN <<ret, mask>>
    ELSE LET flag == Head(flags)
         IN  IF Head(flag) = "!"
             THEN names2flags_mask_in_else_loop(Tail(flags), ret, mask)
             ELSE names2flags_mask_in_else_loop(Tail(flags),
                                   BitOr(ret, IFF_NAMES[flag[1]]),
                                   BitOr(mask, IFF_NAMES[flag[1]]))

names2flags_mask_in_else(flags) == names2flags_mask_in_else_loop(flags, 0, 0)

\* ifinfbase.names2flags: (ret, mask).
names2flags(flags) == names2flags_loop(flags, 0, 0)

\* The loop of flags2names over the keys of IFF_VALUES.
RECURSIVE flags2names_loop(_, _, _, _)
flags2names_loop(keys, flags, mask, ret) ==
    IF keys = <<>>
    THEN ret
    ELSE LET flag == Head(keys)
         IN  flags2names_loop(Tail(keys), flags, mask,
                 IF BitAnd(BitAnd(flag, mask), flags) = flag
                 THEN Append(ret, IFF_VALUES[flag])
                 ELSE ret)

\* The mutation of flags2names: the test leaves out the flags value.
RECURSIVE flags2names_mask_only_loop(_, _, _, _)
flags2names_mask_only_loop(keys, flags, mask, ret) ==
    IF keys = <<>>
    THEN ret
    ELSE LET flag == Head(keys)
         IN  flags2names_mask_only_loop(Tail(keys), flags, mask,
                 IF BitAnd(flag, mask) = flag
                 THEN Append(ret, IFF_VALUES[flag])
                 ELSE ret)

flags2names_mask_only(flags, mask) ==
    flags2names_mask_only_loop(IFF_VALUES_keys, flags, mask, <<>>)

\* ifinfbase.flags2names(flags, mask).
flags2names(flags, mask) == flags2names_loop(IFF_VALUES_keys, flags, mask, <<>>)

(***************************************************************************)
(* The interface-info message header: ifinfbase.fields, ifinfbase.encode.  *)
(***************************************************************************)
MaxLen == 2       \* names in one flag list

\* The mutation of fields: the alignment byte is left out.
fields_without_align ==
    << <<"family", "B">>,
       <<"ifi_type", "H">>,
       <<"index", "i">>,
       <<"flags", "I">>,
       <<"change", "I">> >>

\* ifinfbase.fields
fields ==
    << <<"family", "B">>,
       <<"__align", "B">>,
       <<"ifi_type", "H">>,
       <<"index", "i">>,
       <<"flags", "I">>,
       <<"change", "I">> >>

FieldNames == {fields[i][1] : i \in 1..Len(fields)}

\* A field's value: an integer, or (the flags field only) a list of names;
\* isinstance(self['flags'], (set, tuple, list)) is the islist field.
IntField(n) == [islist |-> FALSE, int |-> n, list |-> <<>>]
ListField(l) == [islist |-> TRUE, int |-> 0, list |-> l]

FlagEntries == {Plain(IFF[i][1]) : i \in 1..Len(IFF)}
                  \cup {Negated(IFF[i][1]) : i \in 1..Len(IFF)}
FlagLists == SeqsUpTo(FlagEntries, MaxLen)

Header(family, type, index, flags, change) ==
    [n \in FieldNames |->
        CASE n = "family" -> IntField(family)
          [] n = "__align" -> IntField(0)
          [] n = "ifi_type" -> IntField(type)
          [] n = "index" -> IntField(index)
          [] n = "flags" -> flags
          [] n = "change" -> IntField(change)]

\* The headers a caller builds: a flag list on an otherwise plain header, or
\* integer flags with the other fields varied (256 is no unsigned byte).
HeaderInputs ==
    {Header(0, 0, 2, ListField(l), 0) : l \in FlagLists}
    \cup {Header(fam, typ, idx, IntField(fl), ch) :
            fam \in {0, 10, 256}, typ \in {1, 772}, idx \in {-1, 2},
            fl \in {0, 4099}, ch \in {0, 1}}

\* nlmsg.encode: every field of the list packed in turn; None when a value
\* does not fit its format (struct.error).
RECURSIVE nlmsg_encode(_, _)
nlmsg_encode(flds, values) ==
    IF flds = <<>>
    THEN Some(<<>>)
    ELSE LET name == Head(flds)[1]
             fmt == Head(flds)[2]
             rest == nlmsg_encode(Tail(flds), values)
         IN  IF rest = None \/ ~FmtOk(fmt, values[name].int)
             THEN None
             ELSE Some(pack(fmt, values[name].int) \o rest[1])

\* nlmsg.decode: every field of the list unpacked in turn from the buffer.
RECURSIVE nlmsg_decode(_, _)
nlmsg_decode(flds, buf) ==
    IF flds = <<>>
    THEN <<>>
    ELSE LET fmt == Head(flds)[2]
             n == FmtSize(fmt)
         IN  <<unpack(fmt, SubSeq(buf, 1, n))>>
               \o nlmsg_decode(Tail(flds), SubSeq(buf, n + 1, Len(buf)))

FieldIndex(name) == CHOOSE i \in 1..Len(fields) : fields[i][1] = name

\* ifinfbase.encode: the flag list is converted, then the header is packed.
ifinfbase_encode_fields(values) ==
    IF values["flags"].islist
    THEN LET r == names2flags(values["flags"].list)
         IN  [values EXCEPT !["flags"] = IntField(r[1]),
                            !["change"] = IntField(r[2])]
    ELSE values

MInit ==
    /\ m_input \in HeaderInputs
    /\ m_fields = m_input
    /\ m_buf = None
    /\ m_dec = None
    /\ m_names = None
    /\ m_pc = "new"

\* ifinfbase.encode succeeds.
MsgEncode ==
    /\ m_pc = "new"
    /\ LET v == ifinfbase_encode_fields(m_fields)
           b == nlmsg_encode(fields, v)
       IN  /\ b # None
           /\ m_fields' = v
           /\ m_buf' = b
           /\ m_pc' = "encoded"
    /\ UNCHANGED <<m_input, m_dec, m_names, nsVars, stVars, liVars>>

\* ifinfbase.encode raises struct.error; nothing is written.
MsgEncodeFails ==
    /\ m_pc = "new"
    /\ LET v == ifinfbase_encode_fields(m_fields)
       IN  /\ nlmsg_encode(fields, v) = None
           /\ m_fields' = v
           /\ m_pc' = "error"
    /\ UNCHANGED <<m_input, m_buf, m_dec, m_names, nsVars, stVars, liVars>>

\* The receiver decodes the header.
MsgDecode ==
    /\ m_pc = "encoded"
    /\ m_dec' = Some(nlmsg_decode(fields, m_buf[1]))
    /\ m_pc' = "decoded"
    /\ UNCHANGED <<m_input, m_fields, m_buf, m_names, nsVars, stVars, liVars>>

\* flags2names on the decoded (flags, change) pair.
MsgFlags2Names ==
    /\ m_pc = "decoded"
    /\ m_names' = Some(flags2names(m_dec[1][FieldIndex("flags")],
                                   m_dec[1][FieldIndex("change")]))
    /\ m_pc' = "named"
    /\ UNCHANGED <<m_input, m_fields, m_buf, m_dec, nsVars, stVars, liVars>>

NextMsg == MsgEncode \/ MsgEncodeFails \/ MsgDecode \/ MsgFlags2Names

(***************************************************************************)
(* Claims about the flags and the header, checked under SpecMsg.           *)
(***************************************************************************)
MsgList == m_input["flags"].list
MsgConverted == m_input["flags"].islist /\ m_pc \in {"encoded", "decoded", "named"}

\* The catalogue names a list addresses, and those it addresses un-negated.
BaseNames(l) == {l[j][Len(l[j])] : j \in 1..Len(l)}
PlainNames(l) == {l[j][1] : j \in {k \in 1..Len(l) : Len(l[k]) = 1}}
HasBit(x, bit) == (x \div bit) % 2 = 1

\* C3: names2flags returns (value, mask) where mask has exactly the bits of
\* all listed names and value exactly the bits of the un-negated ones, so
\* value is a subset of mask; ["up", "!promisc"] gives (0x1, 0x101).
C3_Names2Flags ==
    MsgConverted =>
       LET value == m_fields["flags"].int
           mask == m_fields["change"].int
       IN  /\ \A i \in 1..Len(IFF) :
                 /\ HasBit(mask, IFF[i][2]) <=> IFF[i][1] \in BaseNames(MsgList)
                 /\ HasBit(value, IFF[i][2]) <=> IFF[i][1] \in PlainNames(MsgList)
           /\ value < 2 * IFF[Len(IFF)][2] /\ mask < 2 * IFF[Len(IFF)][2]
           /\ \A i \in 1..Len(IFF) : HasBit(value, IFF[i][2]) => HasBit(mask, IFF[i][2])
           /\ MsgList = <<Plain("IFF_UP"), Negated("IFF_PROMISC")>>
                 => value = 1 /\ mask = 257

\* C3 witness: ["up", "!promisc"] has been converted to (0x1, 0x101).
C3_Witness ==
    /\ MsgConverted
    /\ MsgList = <<Plain("IFF_UP"), Negated("IFF_PROMISC")>>
    /\ m_fields["flags"].int = 1 /\ m_fields["change"].int = 257

CatalogueIndex(n) == CHOOSE i \in 1..Len(IFF) : IFF[i][1] = n
NoDuplicateBase(l) == \A a, b \in 1..Len(l) : a # b => l[a][Len(l[a])] # l[b][Len(l[b])]

\* C4: for a list without duplicate base names, flags2names of the pair that
\* names2flags returned is exactly the un-negated names of the list, each
\* once, in the order of the catalogue.
C4_RoundTrip ==
    (m_pc = "named" /\ m_input["flags"].islist /\ NoDuplicateBase(MsgList)) =>
       LET names == m_names[1]
       IN  /\ Range(names) = PlainNames(MsgList)
           /\ \A a, b \in 1..Len(names) :
                 a < b => CatalogueIndex(names[a]) < CatalogueIndex(names[b])

\* C4 witness: a list given against the catalogue order has made the round
\* trip and come back in catalogue order.
C4_Witness ==
    /\ m_pc = "named"
    /\ MsgList = <<Plain("IFF_PROMISC"), Plain("IFF_UP")>>
    /\ m_names = Some(<<"IFF_UP", "IFF_PROMISC">>)

\* C8 as stated: the encoded header is exactly 12 bytes long, the pad byte
\* included.
C8_HeaderIs12Bytes == m_buf # None => Len(m_buf[1]) = 12

\* C8 as amended: the encoded header (family u8, pad u8, link-type u16,
\* index i32, flags u32, change u32, packed contiguously) is exactly 16 bytes
\* long, the pad byte included.
C8_HeaderIs16Bytes == m_buf # None => Len(m_buf[1]) = 16

\* C8 witness: a header with a non-zero family and a negative index has been
\* encoded, and the byte after the family is the zero pad.
C8_Witness ==
    /\ m_pc = "encoded"
    /\ m_input["family"].int = 10 /\ m_input["index"].int = -1
    /\ m_buf[1][1] = 10 /\ m_buf[1][2] = 0

(***************************************************************************)
(* ifinfbase.state: the operational-state attribute.                       *)
(***************************************************************************)
MaxOps == 2       \* calls on one state attribute
ByteMax == 255

\* The mutation of states: two neighbours exchanged.
states_swapped ==
    <<"UNKNOWN", "NOTPRESENT", "DOWN", "LOWERLAYERDOWN", "TESTING", "UP", "DORMANT">>

\* states
states ==
    <<"UNKNOWN", "NOTPRESENT", "DOWN", "LOWERLAYERDOWN", "TESTING", "DORMANT", "UP">>

\* dict(((i[1], i[0]) for i in enumerate(states)))
state_by_name == [n \in Range(states) |-> (CHOOSE i \in 1..Len(states) : states[i] = n) - 1]
\* dict(enumerate(states))
state_by_code == [c \in 0..(Len(states) - 1) |-> states[c + 1]]

state_fields == <<<<"value", "B">>>>

\* The names a caller may ask to encode; the last two are in no table.
StateNameInputs == Range(states) \cup {"BOGUS", "up"}

StateOrigins ==
    {[kind |-> "name", name |-> n, code |-> 0] : n \in StateNameInputs}
    \cup {[kind |-> "code", name |-> "", code |-> c] : c \in 0..ByteMax}

StInit ==
    /\ st_origin \in StateOrigins
    /\ st_value = IF st_origin.kind = "name" THEN Some(st_origin.name) ELSE None
    /\ st_field = None
    /\ st_buf = IF st_origin.kind = "code" THEN <<st_origin.code>> ELSE <<>>
    /\ st_err = ""
    /\ st_ops = <<>>

\* state.encode: the name is looked up, then nla.encode packs the field.
StateEncode ==
    /\ st_value # None
    /\ Len(st_ops) < MaxOps
    /\ st_value[1] \in DOMAIN state_by_name
    /\ st_field' = Some(state_by_name[st_value[1]])
    /\ st_buf' = pack(state_fields[1][2], state_by_name[st_value[1]])
    /\ st_err' = ""
    /\ st_ops' = Append(st_ops, "encode")
    /\ UNCHANGED <<st_origin, st_value, nsVars, mVars, liVars>>

\* state.encode of a name that is no key of state_by_name: KeyError, before
\* anything is assigned or packed.
StateEncodeFails ==
    /\ st_value # None
    /\ Len(st_ops) < MaxOps
    /\ st_value[1] \notin DOMAIN state_by_name
    /\ st_err' = "KeyError"
    /\ st_ops' = Append(st_ops, "encode")
    /\ UNCHANGED <<st_origin, st_value, st_field, st_buf, nsVars, mVars, liVars>>

\* state.decode: nla.decode unpacks the field, then the code is looked up.
StateDecode ==
    /\ st_buf # <<>>
    /\ Len(st_ops) < MaxOps
    /\ unpack(state_fields[1][2], st_buf) \in DOMAIN state_by_code
    /\ st_field' = Some(unpack(state_fields[1][2], st_buf))
    /\ st_value' = Some(state_by_code[unpack(state_fields[1][2], st_buf)])
    /\ st_err' = ""
    /\ st_ops' = Append(st_ops, "decode")
    /\ UNCHANGED <<st_origin, st_buf, nsVars, mVars, liVars>>

\* state.decode of a code that is no key of state_by_code: the field is
\* unpacked, the lookup raises KeyError.
StateDecodeFails ==
    /\ st_buf # <<>>
    /\ Len(st_ops) < MaxOps
    /\ unpack(state_fields[1][2], st_buf) \notin DOMAIN state_by_code
    /\ st_field' = Some(unpack(state_fields[1][2], st_buf))
    /\ st_err' = "KeyError"
    /\ st_ops' = Append(st_ops, "decode")
    /\ UNCHANGED <<st_origin, st_value, st_buf, nsVars, mVars, liVars>>

NextState == StateEncode \/ StateEncodeFails \/ StateDecode \/ StateDecodeFails

(***************************************************************************)
(* Claims about the operational state, checked under SpecState.            *)
(***************************************************************************)

\* The table of the claim: code c is the name at index c.
C7_Name(c) ==
    CASE c = 0 -> "UNKNOWN"
      [] c = 1 -> "NOTPRESENT"
      [] c = 2 -> "DOWN"
      [] c = 3 -> "LOWERLAYERDOWN"
      [] c = 4 -> "TESTING"
      [] c = 5 -> "DORMANT"
      [] c = 6 -> "UP"

C7_Names == {C7_Name(c) : c \in 0..6}

\* C7: a code c in 0..6 decodes to the name at index c and a table name
\* encodes to its one-byte index, so decode after encode gives the name back
\* and encode after decode the code (0x06 is "UP", "DOWN" is 0x02); encoding a
\* name outside the table fails and produces no byte.
C7_StateTable ==
    /\ (st_ops # <<>> /\ st_ops[Len(st_ops)] = "decode" /\ st_buf[1] \in 0..6) =>
          st_err = "" /\ st_value = Some(C7_Name(st_buf[1]))
    /\ (st_ops # <<>> /\ st_ops[Len(st_ops)] = "encode" /\ st_value[1] \in C7_Names) =>
          /\ st_err = "" /\ Len(st_buf) = 1
          /\ st_buf[1] \in 0..6 /\ C7_Name(st_buf[1]) = st_value[1]
    /\ (st_origin.kind = "name" /\ st_origin.name \in C7_Names
          /\ st_ops = <<"encode", "decode">>) => st_value = Some(st_origin.name)
    /\ (st_origin.kind = "code" /\ st_origin.code \in 0..6
          /\ st_ops = <<"decode", "encode">>) => st_buf = <<st_origin.code>>
    /\ (st_origin = [kind |-> "code", name |-> "", code |-> 6] /\ st_ops = <<"decode">>)
          => st_value = Some("UP")
    /\ (st_origin = [kind |-> "name", name |-> "DOWN", code |-> 0] /\ st_ops = <<"encode">>)
          => st_buf = <<2>>
    /\ (st_origin.kind = "name" /\ st_origin.name \notin C7_Names /\ st_ops # <<>>) =>
          st_err = "KeyError" /\ st_buf = <<>> /\ st_field = None

\* C7 witness: "DORMANT" has been encoded to 0x05 and decoded back.
C7_Witness ==
    /\ st_origin.kind = "name" /\ st_origin.name = "DORMANT"
    /\ st_ops = <<"encode", "decode">>
    /\ st_buf = <<5>> /\ st_value = Some("DORMANT") /\ st_err = ""

(***************************************************************************)
(* ifinfbase.ifinfo: the link-info group and its variant resolver.         *)
(***************************************************************************)
MaxAttrs == 3     \* attribute records in one link-info group

\* The mutation of nla_map: IFLA_INFO_DATA declared as plain hex.
ifinfo_nla_map_data_hex ==
    << <<"IFLA_INFO_UNSPEC", "none">>,
       <<"IFLA_INFO_KIND", "asciiz">>,
       <<"IFLA_INFO_DATA", "hex">>,
       <<"IFLA_INFO_XSTATS", "hex">>,
       <<"IFLA_INFO_SLAVE_KIND", "asciiz">>,
       <<"IFLA_INFO_SLAVE_DATA", "info_data">> >>

\* ifinfo.nla_map; the type id of an entry is its position, from 0.
ifinfo_nla_map ==
    << <<"IFLA_INFO_UNSPEC", "none">>,
       <<"IFLA_INFO_KIND", "asciiz">>,
       <<"IFLA_INFO_DATA", "info_data">>,
       <<"IFLA_INFO_XSTATS", "hex">>,
       <<"IFLA_INFO_SLAVE_KIND", "asciiz">>,
       <<"IFLA_INFO_SLAVE_DATA", "info_data">> >>

\* A payload is a sequence of byte groups; "NUL" ends a string.
KindPayloads == {<<"vlan", "NUL">>, <<"bond", "NUL">>, <<"veth", "NUL">>,
                 <<"unknown-driver", "NUL">>, <<"NUL">>}
SlaveKindPayloads == {<<"bond", "NUL">>, <<"vlan", "NUL">>}
DataPayload == <<"01", "00", "02", "00">>

\* The attribute records a group may carry; type 6 is in no nla_map.
LiRecords ==
    {[type |-> 1, payload |-> pl] : pl \in KindPayloads}
    \cup {[type |-> 4, payload |-> pl] : pl \in SlaveKindPayloads}
    \cup {[type |-> ty, payload |-> DataPayload] : ty \in {2, 3, 5, 6}}

\* nla.asciiz: the string before the terminating NUL.
asciiz(payload) == IF Head(payload) = "NUL" THEN "" ELSE Head(payload)

\* nla.get_attr(name): the value of the first decoded attribute of that
\* name, None when there is none.
get_attr(attrs, name) ==
    LET hits == {i \in 1..Len(attrs) : attrs[i].name = name}
    IN  IF hits = {}
        THEN None
        ELSE Some(attrs[CHOOSE i \in hits : \A j \in hits : i <= j].str)

\* The mutation of info_data: the veth branch is missing.
info_data_without_veth(attrs) ==
    LET kind == get_attr(attrs, "IFLA_INFO_KIND")
    IN  IF kind = Some("vlan") THEN "vlan_data"
        ELSE IF kind = Some("bond") THEN "bond_data"
        ELSE "hex"

\* The mutation of info_data: the slave kind, when decoded, is the selector.
info_data_by_slave_kind(attrs) ==
    LET slave == get_attr(attrs, "IFLA_INFO_SLAVE_KIND")
        kind == IF slave # None THEN slave ELSE get_attr(attrs, "IFLA_INFO_KIND")
    IN  IF kind = Some("vlan") THEN "vlan_data"
        ELSE IF kind = Some("bond") THEN "bond_data"
        ELSE IF kind = Some("veth") THEN "veth_data"
        ELSE "hex"

\* ifinfo.info_data: the class to decode the data with.
info_data(attrs) ==
    LET kind == get_attr(attrs, "IFLA_INFO_KIND")
    IN  IF kind = Some("vlan") THEN "vlan_data"
        ELSE IF kind = Some("bond") THEN "bond_data"
        ELSE IF kind = Some("veth") THEN "veth_data"
        ELSE "hex"

\* The decoding of one attribute record given the siblings decoded so far:
\* the nla_map entry of its type names the class, or the method that returns
\* it; a type outside the map is kept as hex.
decode_nla(attrs, rec) ==
    IF rec.type + 1 \in DOMAIN ifinfo_nla_map
    THEN LET entry == ifinfo_nla_map[rec.type + 1]
             dynamic == entry[2] = "info_data"
             schema == IF dynamic THEN info_data(attrs) ELSE entry[2]
         IN  [name |-> entry[1],
              schema |-> schema,
              str |-> IF schema = "asciiz" THEN asciiz(rec.payload) ELSE "",
              raw |-> rec.payload,
              selector |-> IF dynamic THEN get_attr(attrs, "IFLA_INFO_KIND") ELSE None]
    ELSE [name |-> "UNKNOWN", schema |-> "hex", str |-> "", raw |-> rec.payload,
          selector |-> None]

LiInit ==
    /\ li_wire \in SeqsUpTo(LiRecords, MaxAttrs)
    /\ li_pos = 1
    /\ li_attrs = <<>>

\* The next record of the group is decoded and appended to self['attrs'].
DecodeNla ==
    /\ li_pos <= Len(li_wire)
    /\ li_attrs' = Append(li_attrs, decode_nla(li_attrs, li_wire[li_pos]))
    /\ li_pos' = li_pos + 1
    /\ UNCHANGED <<li_wire, nsVars, mVars, stVars>>

NextInfo == DecodeNla

(***************************************************************************)
(* Claims about the link-info group, checked under SpecInfo.               *)
(***************************************************************************)

\* The schema the claims name for a kind string.
SchemaOfKind(k) ==
    CASE k = "vlan" -> "vlan_data"
      [] k = "bond" -> "bond_data"
      [] k = "veth" -> "veth_data"
      [] OTHER -> "hex"

\* Decoding never skips or fails: every record before li_pos has its attribute.
LiDecoded == Len(li_attrs) = li_pos - 1

\* C5: the resolver returns the VLAN schema for selector "vlan", the bonding
\* schema for "bond", the veth schema for "veth" and hex for a selector that
\* is absent, empty or any other string; it never fails.
C5_Resolver ==
    /\ LiDecoded
    /\ \A i \in 1..Len(li_attrs) :
          li_attrs[i].name \in {"IFLA_INFO_DATA", "IFLA_INFO_SLAVE_DATA"} =>
             li_attrs[i].schema =
                IF li_attrs[i].selector = None
                THEN "hex"
                ELSE SchemaOfKind(li_attrs[i].selector[1])

\* C5 witness: data attributes have been resolved for the selector "veth" and
\* for an absent selector.
C5_Witness ==
    /\ Len(li_attrs) = 3
    /\ li_attrs[1].name = "IFLA_INFO_DATA" /\ li_attrs[1].selector = None
    /\ li_attrs[1].schema = "hex"
    /\ li_attrs[3].name = "IFLA_INFO_DATA" /\ li_attrs[3].selector = Some("veth")
    /\ li_attrs[3].schema = "veth_data"

\* The kind strings of the IFLA_INFO_KIND records before position i.
KindsBefore(i) == {asciiz(li_wire[j].payload) : j \in {k \in 1..(i - 1) : li_wire[k].type = 1}}

\* The schema of the record at position i follows the kind decoded before it.
SchemaFollowsKind(i) ==
    /\ li_attrs[i].raw = li_wire[i].payload
    /\ IF KindsBefore(i) = {}
       THEN li_attrs[i].schema = "hex"
       ELSE li_attrs[i].schema \in {SchemaOfKind(k) : k \in KindsBefore(i)}

C6_SchemaByEarlierKind ==
    /\ LiDecoded
    /\ \A i \in 1..Len(li_attrs) : li_wire[i].type = 2 => SchemaFollowsKind(i)

C6_EarlierUnchanged ==
    /\ Len(li_attrs') >= Len(li_attrs)
    /\ \A i \in 1..Len(li_attrs) : li_attrs'[i] = li_attrs[i]

\* C6: in wire order, a data attribute is decoded with the schema of the kind
\* attribute decoded before it in the same list (VLAN schema after "vlan",
\* hex after "unknown-driver", hex when no kind precedes it), and decoding a
\* later attribute changes no attribute decoded earlier.
C6_KindBeforeData == [](C6_SchemaByEarlierKind) /\ [][C6_EarlierUnchanged]_vars

\* C6 witness: a data attribute decoded before the kind is hex, the same
\* bytes after kind "vlan" are decoded with the VLAN schema.
C6_Witness ==
    /\ li_pos = 4
    /\ li_wire[1].type = 2 /\ li_attrs[1].schema = "hex"
    /\ li_wire[2] = [type |-> 1, payload |-> <<"vlan", "NUL">>]
    /\ li_wire[3].type = 2 /\ li_attrs[3].schema = "vlan_data"
    /\ li_attrs[3].raw = li_attrs[1].raw

\* C10: the schema of IFLA_INFO_SLAVE_DATA follows IFLA_INFO_KIND, as that of
\* IFLA_INFO_DATA does, whatever IFLA_INFO_SLAVE_KIND is or whether there is
\* one.
C10_SlaveDataByKind ==
    \A i \in 1..Len(li_attrs) : li_wire[i].type = 5 => SchemaFollowsKind(i)

\* C10 witness: slave data after kind "bond" and slave kind "vlan" is decoded
\* with the bonding schema.
C10_Witness ==
    /\ li_pos = 4
    /\ li_wire[1] = [type |-> 1, payload |-> <<"bond", "NUL">>]
    /\ li_wire[2] = [type |-> 4, payload |-> <<"vlan", "NUL">>]
    /\ li_wire[3].type = 5 /\ li_attrs[3].schema = "bond_data"

MIdle == m_input = None /\ m_fields = None /\ m_buf = None /\ m_dec = None /\ m_names = None /\ m_pc = "idle"
StIdle ==
    /\ st_origin = None /\ st_value = None /\ st_field = None
    /\ st_buf = <<>> /\ st_err = "" /\ st_ops = <<>>
LiIdle == li_wire = <<>> /\ li_pos = 1 /\ li_attrs = <<>>
NsIdle == NsInit

InitNetns == NsInit /\ MIdle /\ StIdle /\ LiIdle
SpecNetns == InitNetns /\ [][NextNetns]_vars

InitMsg == NsIdle /\ MInit /\ StIdle /\ LiIdle
SpecMsg == InitMsg /\ [][NextMsg]_vars

InitState == NsIdle /\ MIdle /\ StInit /\ LiIdle
SpecState == InitState /\ [][NextState]_vars

InitInfo == NsIdle /\ MIdle /\ StIdle /\ LiInit
SpecInfo == InitInfo /\ [][NextInfo]_vars

====
